---------------------------- MODULE Spec2Model ----------------------------
(***************************************************************************)
(* A model of bert_score/utils.py: padding, the IDF table builder, the     *)
(* collator, the embedding extractor, the greedy alignment scorer and the  *)
(* batch orchestrator.                                                     *)
(*                                                                         *)
(* Representation.                                                         *)
(*   - A float is a pair <<n, d>>: the rational n/d in lowest terms with   *)
(*     d > 0, or one of the IEEE specials NaN = <<0,0>>, +inf = <<1,0>>,   *)
(*     -inf = <<-1,0>>.  Arithmetic is exact; rounding is not modelled.    *)
(*   - A tensor is a sequence (of sequences ...) indexed from 1; the       *)
(*     Python index i is the model's index i+1.                            *)
(*   - A text is a sequence of word tokens; the tokenizer and the          *)
(*     embedding model are external and are drawn from small sets.         *)
(*   - A local value that is read more than once is bound through a        *)
(*     singleton set, The({f(x) : x \in {e}}), so that it is evaluated     *)
(*     once; this is LET x == e IN f(x).                                   *)
(***************************************************************************)
EXTENDS Integers, Sequences, FiniteSets, TLC

VARIABLES
    pc,             \* position of the call under study
    \* padding(arr, pad_token)
    arr, pad_token, pad_out,
    \* get_idf_dict(arr, tokenizer, nthreads)
    corpus, nthreads, next_task, running, results, finished, idf_dict,
    \* bert_cos_score_idf(model, refs, hyps, tokenizer, idf_dict, batch_size)
    pad_id, refs, hyps, batch_size, batch_start, preds, visited, ret,
    \* greedy_cos_idf(ref_embedding, .., ref_idf, hyp_embedding, .., hyp_idf)
    ref_side, hyp_side, same_device, reuse, first, second,
    \* get_bert_embedding(all_sens, model, tokenizer, idf_dict, batch_size)
    all_sens, collated, i, embeddings

padVars    == <<arr, pad_token, pad_out>>
idfVars    == <<corpus, nthreads, next_task, running, results, finished>>
scoreVars  == <<pad_id, refs, hyps, batch_size, batch_start, preds, visited, ret>>
greedyVars == <<ref_side, hyp_side, same_device, reuse, first, second>>
embedVars  == <<all_sens, collated, i, embeddings>>
vars == <<pc, padVars, idfVars, idf_dict, scoreVars, greedyVars, embedVars>>

-----------------------------------------------------------------------------
(* Bounds of the model *)

MaxArr == 2         \* sequences handed to one padding call
MaxSeqLen == 2      \* length of one such sequence
MaxDocs == 3        \* documents of a corpus
MaxThreads == 2     \* workers of the pool
MaxPairs == 3       \* reference/hypothesis texts of one scoring call
MaxBatch == 2       \* batch_size of a scoring call
MaxWidth == 2       \* columns of a scorer input row
MaxSens == 3        \* sentences of one get_bert_embedding call
MaxSub == 2         \* its sub-batch size

-----------------------------------------------------------------------------
(* Floats *)

The(S) == CHOOSE x \in S : TRUE

Abs(x) == IF x < 0 THEN -x ELSE x

RECURSIVE Gcd(_, _)
Gcd(a, b) == IF b = 0 THEN a ELSE Gcd(b, a % b)

\* n/d in lowest terms, d # 0
Rat(n, d) ==
    LET g == Gcd(Abs(n), Abs(d))
        s == IF d < 0 THEN -1 ELSE 1
    IN  <<s * (n \div g), s * (d \div g)>>

NaN  == <<0, 0>>
PInf == <<1, 0>>
NInf == <<-1, 0>>
Zero == <<0, 1>>
One  == <<1, 1>>
ToFloat(k) == <<k, 1>>

IsNaN(x) == x = NaN
IsInf(x) == x[2] = 0 /\ x[1] # 0
IsFin(x) == x[2] # 0
Sign(x)  == IF x[1] > 0 THEN 1 ELSE IF x[1] < 0 THEN -1 ELSE 0
InfOf(s) == IF s > 0 THEN PInf ELSE NInf

RAdd(x, y) ==
    LET g == Gcd(x[2], y[2])
        l == (x[2] \div g) * y[2]
    IN  Rat(x[1] * (l \div x[2]) + y[1] * (l \div y[2]), l)

RMul(x, y) ==
    LET g1 == Gcd(Abs(x[1]), y[2])
        g2 == Gcd(Abs(y[1]), x[2])
    IN  Rat((x[1] \div g1) * (y[1] \div g2), (x[2] \div g2) * (y[2] \div g1))

RInv(y) == IF y[1] < 0 THEN <<-y[2], -y[1]>> ELSE <<y[2], y[1]>>

FAddVal(x, y) ==
    IF IsNaN(x) \/ IsNaN(y) THEN NaN
    ELSE IF IsInf(x) /\ IsInf(y) THEN (IF x = y THEN x ELSE NaN)
    ELSE IF IsInf(x) THEN x
    ELSE IF IsInf(y) THEN y
    ELSE RAdd(x, y)
FAdd(x0, y0) == The({FAddVal(x, y) : x \in {x0}, y \in {y0}})

FMulVal(x, y) ==
    IF IsNaN(x) \/ IsNaN(y) THEN NaN
    ELSE IF IsInf(x) \/ IsInf(y)
         THEN (IF Sign(x) * Sign(y) = 0 THEN NaN ELSE InfOf(Sign(x) * Sign(y)))
    ELSE RMul(x, y)
FMul(x0, y0) == The({FMulVal(x, y) : x \in {x0}, y \in {y0}})

FDivVal(x, y) ==
    IF IsNaN(x) \/ IsNaN(y) THEN NaN
    ELSE IF IsInf(x) THEN (IF IsInf(y) THEN NaN
                           ELSE InfOf(Sign(x) * (IF Sign(y) < 0 THEN -1 ELSE 1)))
    ELSE IF IsInf(y) THEN Zero
    ELSE IF y = Zero THEN (IF x = Zero THEN NaN ELSE InfOf(Sign(x)))
    ELSE RMul(x, RInv(y))
FDiv(x0, y0) == The({FDivVal(x, y) : x \in {x0}, y \in {y0}})

\* x < y for x, y not NaN
FLess(x, y) ==
    IF x = y THEN FALSE
    ELSE IF x = NInf \/ y = PInf THEN TRUE
    ELSE IF x = PInf \/ y = NInf THEN FALSE
    ELSE x[1] * y[2] < y[1] * x[2]

\* torch.max: a NaN among the operands is the result
FMaxVal(x, y) ==
    IF IsNaN(x) \/ IsNaN(y) THEN NaN ELSE IF FLess(x, y) THEN y ELSE x
FMax(x0, y0) == The({FMaxVal(x, y) : x \in {x0}, y \in {y0}})

\* the square root of a float that is a perfect square, as the norms of the
\* model's embedding vectors are
SqrtVal(x) ==
    IF IsNaN(x) \/ x = NInf THEN NaN
    ELSE IF x = PInf THEN PInf
    ELSE <<CHOOSE r \in 0..x[1] : r * r = x[1], CHOOSE r \in 1..x[2] : r * r = x[2]>>
Sqrt(x0) == The({SqrtVal(x) : x \in {x0}})

RECURSIVE FSum(_)
FSum(s0) ==
    The({IF s = <<>> THEN Zero ELSE FAdd(FSum(SubSeq(s, 1, Len(s) - 1)), s[Len(s)]) :
         s \in {s0}})

RECURSIVE FMaxOf(_)
FMaxOf(s0) ==
    The({IF Len(s) = 1 THEN s[1] ELSE FMax(FMaxOf(SubSeq(s, 1, Len(s) - 1)), s[Len(s)]) :
         s \in {s0}})

-----------------------------------------------------------------------------
(* Python sequences *)

Min(a, b) == IF a < b THEN a ELSE b

RECURSIVE MaxOfInts(_)
MaxOfInts(s) ==
    IF Len(s) = 1 THEN s[1]
    ELSE LET m == MaxOfInts(SubSeq(s, 1, Len(s) - 1))
         IN  IF s[Len(s)] > m THEN s[Len(s)] ELSE m

\* s[start:stop] for 0 <= start, stop
Slice(s, start, stop) == SubSeq(s, start + 1, Min(stop, Len(s)))

\* range(0, n, step) for step >= 1
Range(n, step) == [k \in 1..((n + step - 1) \div step) |-> (k - 1) * step]

RECURSIVE Concat(_)
Concat(ss) == IF ss = <<>> THEN <<>> ELSE Concat(SubSeq(ss, 1, Len(ss) - 1)) \o ss[Len(ss)]

SeqsUpTo(S, lo, hi) == UNION {[1..n -> S] : n \in lo..hi}

-----------------------------------------------------------------------------
(* padding, utils.py 21-29 *)

Filled(n, m, v) == [r \in 1..n |-> [c \in 1..m |-> v]]

\* row[:len] = a   (a has len entries; a scalar a is broadcast by AssignOnes)
AssignPrefix(row, len, a) == [c \in 1..Len(row) |-> IF c <= len THEN a[c] ELSE row[c]]
\* (a variant that marks one position too many)
AssignOnesWrong(row, len) == [c \in 1..Len(row) |-> IF c <= len + 1 THEN 1 ELSE row[c]]
AssignOnes(row, len) == [c \in 1..Len(row) |-> IF c <= len THEN 1 ELSE row[c]]

\* padding(arr, pad_token, dtype): the caller passes the fill value already
\* converted to dtype.  lens.max() raises on an empty arr.
PaddingRows(a, ls, padded0, mask0) ==
    [ok     |-> TRUE,
     padded |-> [r \in 1..Len(a) |-> AssignPrefix(padded0[r], ls[r], a[r])],
     lens   |-> ls,
     mask   |-> [r \in 1..Len(a) |-> AssignOnes(mask0[r], ls[r])]]

Padding(arr0, fill) ==
    The({IF a = <<>> THEN [ok |-> FALSE]
         ELSE The({The({PaddingRows(a, ls, padded0, mask0) :
                          padded0 \in {Filled(Len(a), max_len, fill)},
                          mask0 \in {Filled(Len(a), max_len, 0)}}) :
                     ls \in {[r \in 1..Len(a) |-> Len(a[r])]},
                     max_len \in {MaxOfInts([r \in 1..Len(a) |-> Len(a[r])])}}) :
         a \in {arr0}})

-----------------------------------------------------------------------------
(* The external tokenizer and embedding model *)

Words  == {"a", "b", "c"}
PadIds == {0, 1}

\* tokenizer.tokenize: a text is given as its word tokens
Tokenize(text) == text

\* tokenizer.convert_tokens_to_ids, for the tokenizer whose [PAD] id is p
TokenId(t, p) ==
    CASE t = "[PAD]" -> p
      [] t = "[CLS]" -> 2
      [] t = "[SEP]" -> 3
      [] t = "a"     -> 4
      [] t = "b"     -> 5
      [] t = "c"     -> 6
Numericalize(toks, p) == [k \in 1..Len(toks) |-> TokenId(toks[k], p)]

\* the embedding model, row-wise and deterministic: the vector of a position
\* is a function of the token id at that position (ids 0..6)
ModelVec(id) ==
    CASE id = 0 -> <<3, 0>>
      [] id = 1 -> <<0, 3>>
      [] id = 2 -> <<0, 2>>
      [] id = 3 -> <<0, -1>>
      [] id = 4 -> <<2, 0>>
      [] id = 5 -> <<0, 1>>
      [] id = 6 -> <<-1, 0>>

\* bert_encode(model, x, attention_mask), utils.py 32-37
BertEncode(x, attention_mask) ==
    [r \in 1..Len(x) |->
        [c \in 1..Len(x[r]) |->
            [h \in 1..2 |-> ToFloat(ModelVec(x[r][c])[h])]]]

-----------------------------------------------------------------------------
(* get_idf_dict, utils.py 40-58 *)

\* math.log on the positive rationals the builder meets, in fifths of a nat:
\* log(n/d) = ln n - ln d with ln 1..7 rounded to 0, 3, 5, 7, 8, 9, 10 fifths
LnFifths == <<0, 3, 5, 7, 8, 9, 10>>
Log(q) == Rat(LnFifths[q[1]] - LnFifths[q[2]], 5)

Wrap(toks) == <<"[CLS]">> \o toks \o <<"[SEP]">>

\* process(a, tokenizer): the set of the document's token ids
ProcessList(a, p) == Numericalize(Wrap(Tokenize(a)), p)
Process(a, p) == {ProcessList(a, p)[k] : k \in 1..Len(Wrap(Tokenize(a)))}

TokenIds == 0..6

\* Counter.update(iterable): one more for every element met.  A Counter is a
\* function on TokenIds; the keys it holds are those with a count above 0.
\* `sets` is the list p.map returned.
\* (a variant that keeps only the last document's counts)
CounterUpdateLast(count, sets) ==
    IF sets = <<>> THEN count
    ELSE [t \in TokenIds |-> IF t \in sets[Len(sets)] THEN 1 ELSE 0]

RECURSIVE CounterUpdate(_, _)
CounterUpdate(count, sets) ==
    IF sets = <<>> THEN count
    ELSE LET c == CounterUpdate(count, SubSeq(sets, 1, Len(sets) - 1))
         IN  [t \in TokenIds |-> IF t \in sets[Len(sets)] THEN c[t] + 1 ELSE c[t]]

EmptyCounter == [t \in TokenIds |-> 0]

\* the defaultdict: the entries it holds and the num_docs its default reads
IdfDefault(d) == Log(FDiv(ToFloat(d.num_docs + 1), ToFloat(1)))

\* (a variant without the +1 in the denominator)
BuildIdfDictUnsmoothed(num_docs, idf_count) ==
    [tab |-> [idx \in {t \in TokenIds : idf_count[t] > 0} |->
                 Log(FDiv(ToFloat(num_docs + 1), ToFloat(idf_count[idx])))],
     num_docs |-> num_docs]

BuildIdfDict(num_docs, idf_count) ==
    [tab |-> [idx \in {t \in TokenIds : idf_count[t] > 0} |->
                 Log(FDiv(ToFloat(num_docs + 1), ToFloat(idf_count[idx] + 1)))],
     num_docs |-> num_docs]

\* get_idf_dict as a function of the corpus (the pool's map returns the
\* documents' sets in corpus order)
GetIdfDict(docs, p) ==
    BuildIdfDict(Len(docs),
                 CounterUpdate(EmptyCounter, [k \in 1..Len(docs) |-> Process(docs[k], p)]))

\* idf_dict[i] on the defaultdict: a missing key is given the default and
\* stored
IdfGet(d, k) == IF k \in DOMAIN d.tab THEN d.tab[k] ELSE IdfDefault(d)
IdfTouch(d, keys) ==
    [d EXCEPT !.tab = [k \in (DOMAIN d.tab) \cup keys |-> IdfGet(d, k)]]

-----------------------------------------------------------------------------
(* collate_idf, utils.py 61-76 *)

CollatePadded(ids, idf_weights, d, pad) ==
    LET touched == UNION {{ids[r][c] : c \in 1..Len(ids[r])} : r \in 1..Len(ids)}
    IN  The({IF ~pi.ok THEN [ok |-> FALSE, dict |-> IdfTouch(d, touched)]
             ELSE [ok |-> TRUE, padded |-> pi.padded, padded_idf |-> pf.padded,
                   lens |-> pi.lens, mask |-> pi.mask, dict |-> IdfTouch(d, touched)] :
             pi \in {Padding(ids, pad)},
             pf \in {Padding(idf_weights, ToFloat(pad))}})

CollateIdf(arr0, d0, p) ==
    The({The({CollatePadded(ids,
                            [r \in 1..Len(a) |-> [c \in 1..Len(ids[r]) |-> IdfGet(d, ids[r][c])]],
                            d, TokenId("[PAD]", p)) :
                ids \in {[r \in 1..Len(a) |-> Numericalize(Wrap(Tokenize(a[r])), p)]}}) :
         a \in {arr0}, d \in {d0}})

-----------------------------------------------------------------------------
(* get_bert_embedding, utils.py 79-100 *)

\* one pass of the loop body: the model on rows i..i+batch_size of the
\* matrices collate_idf returned
EncodeChunkRepadded(c, start, bsz) ==
    LET rows  == Slice(c.padded, start, start + bsz)
        ls    == Slice(c.lens, start, start + bsz)
        w     == MaxOfInts(ls)
    IN  BertEncode([r \in 1..Len(rows) |-> SubSeq(rows[r], 1, w)],
                   [r \in 1..Len(rows) |-> SubSeq(Slice(c.mask, start, start + bsz)[r], 1, w)])
EncodeChunk(c, start, bsz) ==
    BertEncode(Slice(c.padded, start, start + bsz), Slice(c.mask, start, start + bsz))

\* batch_size after line 87
SubBatch(n, bsz) == IF bsz = -1 THEN n ELSE bsz

\* the whole call, for a batch_size of -1 or >= 1
GetBertEmbedding(sens0, d, p, bsz) ==
    The({IF ~c.ok THEN [ok |-> FALSE, dict |-> c.dict]
         ELSE The({[ok |-> TRUE,
                    emb |-> Concat([k \in 1..Len(starts) |-> EncodeChunk(c, starts[k], b)]),
                    lens |-> c.lens, mask |-> c.mask, idf |-> c.padded_idf,
                    dict |-> c.dict] :
                   starts \in {Range(Len(sens), b)}}) :
         sens \in {sens0}, c \in {CollateIdf(sens0, d, p)},
         b \in {SubBatch(Len(sens0), bsz)}})

-----------------------------------------------------------------------------
(* greedy_cos_idf, utils.py 103-131 *)

Eps == <<1, 100000000>>      \* 1e-8

Dot(u0, v0) == The({FSum([h \in 1..Len(u) |-> FMul(u[h], v[h])]) : u \in {u0}, v \in {v0}})

\* x.div_(torch.norm(x, dim=-1).unsqueeze(-1)) on one vector
NormalizeVec(v0) ==
    The({[h \in 1..Len(v) |-> FDiv(v[h], norm)] : v \in {v0}, norm \in {Sqrt(Dot(v0, v0))}})
NormalizeEmb(e) == [b \in 1..Len(e) |-> [c \in 1..Len(e[b]) |-> NormalizeVec(e[b][c])]]

\* idf.div_(idf.sum(dim=1, keepdim=True))
NormalizeIdf(w) ==
    [b \in 1..Len(w) |->
        The({[c \in 1..Len(w[b]) |-> FDiv(w[b][c], sum)] : sum \in {FSum(w[b])}})]

\* recall_scale[torch.isnan(recall_scale)] = 1e-8
ReplaceNaN(w) == [b \in 1..Len(w) |-> [c \in 1..Len(w[b]) |-> IF IsNaN(w[b][c]) THEN Eps ELSE w[b][c]]]

\* masks[b][j][k], lines 112-116
PairMaskHypOnly(hyp_masks, ref_masks, b, j, k) == hyp_masks[b][j]
PairMask(hyp_masks, ref_masks, b, j, k) == hyp_masks[b][j] * ref_masks[b][k]

\* sim[b][j][k] after line 117, on the normalized embeddings
Sim(hn, rn, hyp_masks, ref_masks, b, j, k) ==
    FMul(Dot(hn[b][j], rn[b][k]), ToFloat(PairMask(hyp_masks, ref_masks, b, j, k)))

WeightedSum(x0, scale0) ==
    The({FSum([c \in 1..Len(x) |-> FMul(x[c], scale[c])]) : x \in {x0}, scale \in {scale0}})

FScore(P0, R0) ==
    The({FDiv(FMul(FMul(ToFloat(2), P), R), FAdd(P, R)) : P \in {P0}, R \in {R0}})

\* The call on two sides [emb, lens, mask, idf].  torch.bmm raises unless the
\* two batches have the same number of rows.  Besides P, R and F the result
\* holds the arguments as the call leaves them: the embeddings and the IDF
\* rows are normalized in place, and the NaN replacement writes through to
\* ref_idf when .to(device) returns the tensor itself (aliased).
\* lines 119-131, on sim and the normalized IDF rows
GreedyScores(ref, hyp, rn, hn, sim, precision_scale, ref_idf_n, recall_scale, aliased) ==
    LET B == Len(sim)
    IN  The({[ok |-> TRUE,
              P |-> P, R |-> R, F |-> [b \in 1..B |-> FScore(P[b], R[b])],
              ref |-> [ref EXCEPT !.emb = rn,
                                  !.idf = IF aliased THEN recall_scale ELSE ref_idf_n],
              hyp |-> [hyp EXCEPT !.emb = hn, !.idf = precision_scale]] :
             P \in {[b \in 1..B |-> WeightedSum(
                        [j \in 1..Len(hn[b]) |->
                            FMaxOf([k \in 1..Len(rn[b]) |-> sim[b][j][k]])],
                        precision_scale[b])]},
             R \in {[b \in 1..B |-> WeightedSum(
                        [k \in 1..Len(rn[b]) |->
                            FMaxOf([j \in 1..Len(hn[b]) |-> sim[b][j][k]])],
                        recall_scale[b])]}})

GreedyCosIdf(ref0, hyp0, aliased) ==
    The({IF Len(hyp.emb) # Len(ref.emb) THEN [ok |-> FALSE]
         ELSE The({The({GreedyScores(ref, hyp, rn, hn, sim, precision_scale, ref_idf_n,
                                     recall_scale, aliased) :
                          sim \in {[b \in 1..Len(rn) |-> [j \in 1..Len(hn[b]) |->
                                     [k \in 1..Len(rn[b]) |->
                                         Sim(hn, rn, hyp.mask, ref.mask, b, j, k)]]]},
                          recall_scale \in {ReplaceNaN(ref_idf_n)}}) :
                     rn \in {NormalizeEmb(ref.emb)},
                     hn \in {NormalizeEmb(hyp.emb)},
                     precision_scale \in {NormalizeIdf(hyp.idf)},
                     ref_idf_n \in {NormalizeIdf(ref.idf)}}) :
         ref \in {ref0}, hyp \in {hyp0}})

-----------------------------------------------------------------------------
(* bert_cos_score_idf, utils.py 133-151 *)

Side(e) == [emb |-> e.emb, lens |-> e.lens, mask |-> e.mask, idf |-> e.idf]

\* One pass of the loop body on the slices batch_refs, batch_hyps: the rows
\* torch.stack((P, R, F1), dim=1) of the chunk, or the failure of a callee,
\* and the idf_dict as the two collate_idf calls leave it.  The chunk's
\* padded_idf stays on the CPU, so whether it is aliased is not observable.
ScoreChunk(batch_refs, batch_hyps, d, p) ==
    The({IF ~ref_stats.ok THEN [ok |-> FALSE, dict |-> ref_stats.dict]
         ELSE The({IF ~hyp_stats.ok THEN [ok |-> FALSE, dict |-> hyp_stats.dict]
                   ELSE The({IF ~g.ok THEN [ok |-> FALSE, dict |-> hyp_stats.dict]
                             ELSE [ok |-> TRUE, dict |-> hyp_stats.dict,
                                   rows |-> [b \in 1..Len(g.P) |->
                                                <<g.P[b], g.R[b], g.F[b]>>]] :
                             g \in {GreedyCosIdf(Side(ref_stats), Side(hyp_stats), FALSE)}}) :
                   hyp_stats \in {GetBertEmbedding(batch_hyps, ref_stats.dict, p, -1)}}) :
         ref_stats \in {GetBertEmbedding(batch_refs, d, p, -1)}})

-----------------------------------------------------------------------------
(* Inputs *)

Idle == "idle"

PadElems == {0, 7}                                   \* entries of a padded sequence
Docs     == {<<"a">>, <<"a", "a">>, <<"a", "b">>, <<"b">>}   \* documents of a corpus
Texts    == {<<"a">>, <<"b", "c">>}                  \* texts to score
Corpora  == {<< <<"a">> >>, << <<"a">>, <<"b">> >>}    \* corpora of the scoring runs

\* the cells of a scorer input row: an embedding vector and an IDF weight
Cells == {[v |-> <<ToFloat(2), ToFloat(0)>>,  w |-> Zero],
          [v |-> <<ToFloat(0), ToFloat(1)>>,  w |-> One],
          [v |-> <<ToFloat(-1), ToFloat(0)>>, w |-> ToFloat(2)]}

\* a one-row side of `len` real positions among the cells of `row`
SideOf(row, len) ==
    [emb  |-> << [c \in 1..Len(row) |-> row[c].v] >>,
     lens |-> <<len>>,
     mask |-> << [c \in 1..Len(row) |-> IF c <= len THEN 1 ELSE 0] >>,
     idf  |-> << [c \in 1..Len(row) |-> row[c].w] >>]

Sides == UNION {{SideOf(row, len) : len \in 1..Len(row)} : row \in SeqsUpTo(Cells, 1, MaxWidth)}

-----------------------------------------------------------------------------
(* The variables of the calls a specification does not make *)

IdlePad    == arr = Idle /\ pad_token = Idle /\ pad_out = Idle
IdleIdf    == corpus = Idle /\ nthreads = Idle /\ next_task = Idle /\ running = Idle
                 /\ results = Idle /\ finished = Idle
IdleScore  == refs = Idle /\ hyps = Idle /\ batch_start = Idle /\ preds = Idle
IdleGreedy == ref_side = Idle /\ hyp_side = Idle /\ same_device = Idle /\ reuse = Idle
                 /\ first = Idle /\ second = Idle
IdleEmbed  == all_sens = Idle /\ collated = Idle /\ i = Idle /\ embeddings = Idle

-----------------------------------------------------------------------------
(* A padding call *)

InitPad ==
    /\ pc = "pad_call"
    /\ arr \in SeqsUpTo(SeqsUpTo(PadElems, 0, MaxSeqLen), 0, MaxArr)
    /\ pad_token \in PadIds
    /\ pad_out = Idle
    /\ idf_dict = Idle /\ pad_id = Idle /\ batch_size = Idle /\ visited = Idle /\ ret = Idle
    /\ IdleIdf /\ IdleScore /\ IdleGreedy /\ IdleEmbed

PaddingCall ==
    /\ pc = "pad_call"
    /\ pad_out' = Padding(arr, pad_token)
    /\ pc' = IF pad_out'.ok THEN "pad_done" ELSE "pad_error"
    /\ UNCHANGED <<arr, pad_token, idfVars, idf_dict, scoreVars, greedyVars, embedVars>>

NextPad == PaddingCall
SpecPad == InitPad /\ [][NextPad]_vars

-----------------------------------------------------------------------------
(* A get_idf_dict call: the pool's workers take the documents in order and  *)
(* finish them in any order; p.map returns when all are done.               *)

InitIdf ==
    /\ pc = "idf_call"
    /\ corpus \in SeqsUpTo(Docs, 0, MaxDocs)
    /\ nthreads \in 0..MaxThreads
    /\ pad_id = 0
    /\ next_task = 0
    /\ running = {}
    /\ results = <<>>
    /\ finished = <<>>
    /\ idf_dict = Idle
    /\ batch_size = Idle /\ visited = Idle /\ ret = Idle
    /\ IdlePad /\ IdleScore /\ IdleGreedy /\ IdleEmbed

idfFrame == <<padVars, scoreVars, greedyVars, embedVars, corpus, nthreads>>

\* Pool(nthreads) raises ValueError for nthreads < 1
PoolCreate ==
    /\ pc = "idf_call"
    /\ pc' = IF nthreads < 1 THEN "idf_error" ELSE "idf_map"
    /\ UNCHANGED <<idfFrame, next_task, running, results, finished, idf_dict>>

Dispatch ==
    /\ pc = "idf_map"
    /\ next_task < Len(corpus)
    /\ Cardinality(running) < nthreads
    /\ running' = running \cup {next_task + 1}
    /\ next_task' = next_task + 1
    /\ UNCHANGED <<pc, idfFrame, results, finished, idf_dict>>

Finish(k) ==
    /\ pc = "idf_map"
    /\ k \in running
    /\ running' = running \ {k}
    /\ results' = [j \in (DOMAIN results) \cup {k} |->
                      IF j = k THEN Process(corpus[k], pad_id) ELSE results[j]]
    /\ finished' = Append(finished, k)
    /\ UNCHANGED <<pc, idfFrame, next_task, idf_dict>>

MapDone == DOMAIN results = 1..Len(corpus)

Reduce ==
    /\ pc = "idf_map"
    /\ MapDone
    /\ idf_dict' = BuildIdfDict(Len(corpus),
                       CounterUpdate(EmptyCounter, [k \in 1..Len(corpus) |-> results[k]]))
    /\ pc' = "idf_done"
    /\ UNCHANGED <<idfFrame, next_task, running, results, finished>>

NextIdf == PoolCreate \/ Dispatch \/ (\E k \in 1..MaxDocs + 1 : Finish(k)) \/ Reduce
SpecIdf == InitIdf /\ [][NextIdf]_vars

-----------------------------------------------------------------------------
(* A bert_cos_score_idf call on a table built from `corpus`.  The lists may  *)
(* differ in length, here by at most one text.                               *)

InitScore ==
    /\ pc = "score_loop"
    /\ pad_id \in PadIds
    /\ corpus \in Corpora
    /\ idf_dict = GetIdfDict(corpus, pad_id)
    /\ refs \in SeqsUpTo(Texts, 0, MaxPairs)
    /\ hyps \in SeqsUpTo(Texts, 0, MaxPairs)
    /\ Len(hyps) \in (Len(refs) - 1)..(Len(refs) + 1)
    /\ batch_size \in 1..MaxBatch
    /\ batch_start = 0
    /\ preds = <<>>
    /\ visited = <<>>
    /\ ret = Idle
    /\ nthreads = Idle /\ next_task = Idle /\ running = Idle /\ results = Idle
    /\ finished = Idle
    /\ IdlePad /\ IdleGreedy /\ IdleEmbed

scoreFrame == <<padVars, idfVars, greedyVars, embedVars, pad_id, refs, hyps, batch_size>>

\* refs[batch_start:batch_start+batch_size]
BatchSliceShort(s, start, bsz) == Slice(s, start, start + bsz - 1)
BatchSlice(s, start, bsz) == Slice(s, start, start + bsz)

\* one pass of the loop of lines 138-149; a callee's exception ends the call
ScoreBatch ==
    /\ pc = "score_loop"
    /\ batch_start < Len(refs)
    /\ LET batch_refs == BatchSlice(refs, batch_start, batch_size)
           batch_hyps == BatchSlice(hyps, batch_start, batch_size)
       IN  \E c \in {ScoreChunk(batch_refs, batch_hyps, idf_dict, pad_id)} :
           /\ idf_dict' = c.dict
           /\ IF c.ok
              THEN /\ preds' = Append(preds, c.rows)
                   /\ visited' = Append(visited,
                                    [k \in 1..Len(batch_refs) |-> batch_start + k])
                   /\ batch_start' = batch_start + batch_size
                   /\ pc' = pc
              ELSE /\ pc' = "score_error"
                   /\ UNCHANGED <<preds, visited, batch_start>>
    /\ UNCHANGED <<scoreFrame, ret>>

\* lines 150-151; torch.cat raises on an empty list
ScoreReturn ==
    /\ pc = "score_loop"
    /\ batch_start >= Len(refs)
    /\ IF preds = <<>>
       THEN pc' = "score_error" /\ ret' = ret
       ELSE pc' = "score_done" /\ ret' = Concat(preds)
    /\ UNCHANGED <<scoreFrame, idf_dict, batch_start, preds, visited>>

NextScore == ScoreBatch \/ ScoreReturn
SpecScore == InitScore /\ [][NextScore]_vars

\* The call as a function of its arguments.  A lookup reads the same weight
\* whether or not an earlier lookup stored the key, so every chunk may read
\* the table d.
BertCosScoreIdf(rs, hs, d, p, bsz) ==
    LET starts == Range(Len(rs), bsz)
        chunks == [k \in 1..Len(starts) |->
                      ScoreChunk(Slice(rs, starts[k], starts[k] + bsz),
                                 Slice(hs, starts[k], starts[k] + bsz), d, p)]
    IN  IF starts = <<>> \/ \E k \in 1..Len(starts) : ~chunks[k].ok
        THEN [ok |-> FALSE]
        ELSE [ok |-> TRUE, rows |-> Concat([k \in 1..Len(starts) |-> chunks[k].rows])]

-----------------------------------------------------------------------------
(* Two greedy_cos_idf calls on one batch, the second with the sides          *)
(* exchanged.  The first call leaves its arguments normalized in place; the  *)
(* second is given those tensors again (reuse) or clones the caller took     *)
(* before the first call.  same_device says whether the IDF rows live on the *)
(* device of the embeddings, where .to(device) returns the tensor itself.    *)

InitGreedy ==
    /\ pc = "greedy_call"
    /\ ref_side \in Sides
    /\ hyp_side \in Sides
    /\ same_device \in BOOLEAN
    /\ reuse \in BOOLEAN
    /\ first = Idle
    /\ second = Idle
    /\ idf_dict = Idle /\ pad_id = Idle /\ batch_size = Idle /\ visited = Idle /\ ret = Idle
    /\ IdlePad /\ IdleIdf /\ IdleScore /\ IdleEmbed

greedyFrame == <<padVars, idfVars, idf_dict, scoreVars, embedVars, same_device, reuse>>

GreedyFirst ==
    /\ pc = "greedy_call"
    /\ \E g \in {GreedyCosIdf(ref_side, hyp_side, same_device)} :
           /\ first' = [P |-> g.P, R |-> g.R, F |-> g.F,
                        ref0 |-> ref_side, hyp0 |-> hyp_side]
           /\ ref_side' = g.ref
           /\ hyp_side' = g.hyp
    /\ pc' = "greedy_swap"
    /\ UNCHANGED <<greedyFrame, second>>

GreedySwapped ==
    /\ pc = "greedy_swap"
    /\ \E g \in {GreedyCosIdf(IF reuse THEN hyp_side ELSE first.hyp0,
                              IF reuse THEN ref_side ELSE first.ref0, same_device)} :
           /\ second' = [P |-> g.P, R |-> g.R, F |-> g.F]
           /\ hyp_side' = IF reuse THEN g.ref ELSE hyp_side
           /\ ref_side' = IF reuse THEN g.hyp ELSE ref_side
    /\ pc' = "greedy_done"
    /\ UNCHANGED <<greedyFrame, first>>

NextGreedy == GreedyFirst \/ GreedySwapped
SpecGreedy == InitGreedy /\ [][NextGreedy]_vars

-----------------------------------------------------------------------------
(* A get_bert_embedding call *)

InitEmbed ==
    /\ pc = "embed_call"
    /\ pad_id \in PadIds
    /\ corpus \in Corpora
    /\ idf_dict = GetIdfDict(corpus, pad_id)
    /\ all_sens \in SeqsUpTo(Texts, 0, MaxSens)
    /\ batch_size \in {-1} \cup 1..MaxSub
    /\ collated = Idle
    /\ i = Idle
    /\ embeddings = Idle
    /\ visited = <<>>
    /\ ret = Idle
    /\ nthreads = Idle /\ next_task = Idle /\ running = Idle /\ results = Idle
    /\ finished = Idle
    /\ IdlePad /\ IdleScore /\ IdleGreedy

embedFrame == <<padVars, idfVars, greedyVars, pad_id, refs, hyps, batch_start, preds, all_sens>>

\* lines 82-89; padding raises on an empty all_sens
EmbedCollate ==
    /\ pc = "embed_call"
    /\ \E c \in {CollateIdf(all_sens, idf_dict, pad_id)} :
           /\ idf_dict' = c.dict
           /\ IF c.ok
              THEN /\ collated' = [padded |-> c.padded, padded_idf |-> c.padded_idf,
                                   lens |-> c.lens, mask |-> c.mask]
                   /\ batch_size' = SubBatch(Len(all_sens), batch_size)
                   /\ i' = 0
                   /\ embeddings' = <<>>
                   /\ pc' = "embed_loop"
              ELSE /\ pc' = "embed_error"
                   /\ UNCHANGED <<collated, batch_size, i, embeddings>>
    /\ UNCHANGED <<embedFrame, visited, ret>>

\* one pass of the loop of lines 91-96
EmbedChunk ==
    /\ pc = "embed_loop"
    /\ i < Len(all_sens)
    /\ embeddings' = Append(embeddings, EncodeChunk(collated, i, batch_size))
    /\ visited' = Append(visited,
                     [k \in 1..Len(Slice(collated.padded, i, i + batch_size)) |-> i + k])
    /\ i' = i + batch_size
    /\ UNCHANGED <<pc, embedFrame, idf_dict, collated, batch_size, ret>>

\* lines 98-100
EmbedReturn ==
    /\ pc = "embed_loop"
    /\ i >= Len(all_sens)
    /\ ret' = [emb |-> Concat(embeddings), lens |-> collated.lens,
               mask |-> collated.mask, idf |-> collated.padded_idf]
    /\ pc' = "embed_done"
    /\ UNCHANGED <<embedFrame, idf_dict, collated, batch_size, i, embeddings, visited>>

NextEmbed == EmbedCollate \/ EmbedChunk \/ EmbedReturn
SpecEmbed == InitEmbed /\ [][NextEmbed]_vars

-----------------------------------------------------------------------------
(* Claims about padding *)

\* C4: for a non-empty collection of N sequences and any pad value, padding
\* returns lens[r] = len(seq_r) and matrices of width max_len, the length of
\* the longest sequence; mask[r][c] = 1 iff c is within lens[r]; padded[r][c]
\* is seq_r[c] within lens[r] and the pad value past it; so row r of the mask
\* holds exactly len(seq_r) ones, all leading.
C4_PaddingContract ==
    pc = "pad_done" =>
        LET N == Len(arr)
            o == pad_out
        IN  /\ N >= 1
            /\ Len(o.lens) = N /\ Len(o.padded) = N /\ Len(o.mask) = N
            /\ \A r \in 1..N : o.lens[r] = Len(arr[r])
            /\ \E r \in 1..N : \A q \in 1..N :
                   /\ Len(arr[q]) <= Len(arr[r])
                   /\ Len(o.padded[q]) = Len(arr[r])
                   /\ Len(o.mask[q]) = Len(arr[r])
            /\ \A r \in 1..N : \A c \in 1..Len(o.mask[r]) :
                   /\ o.mask[r][c] = (IF c <= o.lens[r] THEN 1 ELSE 0)
                   /\ o.padded[r][c] = (IF c <= o.lens[r] THEN arr[r][c] ELSE pad_token)
            /\ \A r \in 1..N :
                   Cardinality({c \in 1..Len(o.mask[r]) : o.mask[r][c] = 1}) = Len(arr[r])

\* a call on rows of different lengths, one of them holding the pad value itself
C4_Witness ==
    /\ pc = "pad_done"
    /\ Len(arr) = 2 /\ Len(arr[1]) = 1 /\ Len(arr[2]) = 2
    /\ arr[2][1] = pad_token
    /\ pad_out.mask = <<<<1, 0>>, <<1, 1>>>>

-----------------------------------------------------------------------------
(* Claims about the IDF table *)

\* the number of documents of the corpus in which token id t occurs
DocFreq(t) ==
    Cardinality({k \in 1..Len(corpus) :
        \E c \in 1..Len(Wrap(corpus[k])) : TokenId(Wrap(corpus[k])[c], pad_id) = t})

\* C5: for a corpus of N documents the table gives every token id that occurs
\* in c >= 1 documents the weight log((N+1)/(c+1)), c counting documents and
\* not occurrences (the marker ids have c = N); an id of no document reads as
\* log((N+1)/1); and for fixed N the weight strictly decreases as c grows.
C5_IdfWeights ==
    pc = "idf_done" =>
        LET N == Len(corpus)
        IN  /\ \A t \in TokenIds :
                   IF DocFreq(t) >= 1
                   THEN /\ t \in DOMAIN idf_dict.tab
                        /\ idf_dict.tab[t] = Log(Rat(N + 1, DocFreq(t) + 1))
                   ELSE /\ t \notin DOMAIN idf_dict.tab
                        /\ IdfGet(idf_dict, t) = Log(Rat(N + 1, 1))
            /\ N >= 1 => DocFreq(TokenId("[CLS]", pad_id)) = N
                         /\ DocFreq(TokenId("[SEP]", pad_id)) = N
            /\ \A t, u \in TokenIds :
                   DocFreq(t) < DocFreq(u) =>
                       FLess(IdfGet(idf_dict, u), IdfGet(idf_dict, t))

\* a corpus with a token repeated inside one document and absent from another
C5_Witness ==
    /\ pc = "idf_done"
    /\ Len(corpus) = 3
    /\ corpus[1] = <<"a", "a">> /\ corpus[2] = <<"b">> /\ corpus[3] = <<"a", "b">>
    /\ idf_dict.tab[4] = Log(Rat(4, 3))
    /\ 6 \notin DOMAIN idf_dict.tab

\* C6: the table depends only on the multiset of documents: the run on the
\* corpus, with any number of workers finishing in any order, ends with the
\* table (entries and default) that the builder gives for every permutation
\* of the corpus.
C6_OrderIndependent ==
    pc = "idf_done" =>
        \A f \in Permutations(1..Len(corpus)) :
            idf_dict = GetIdfDict([k \in 1..Len(corpus) |-> corpus[f[k]]], pad_id)

\* two workers, the second document finished before the first
C6_Witness ==
    /\ pc = "idf_done"
    /\ nthreads = 2
    /\ Len(corpus) >= 2 /\ corpus[1] # corpus[2]
    /\ Len(finished) >= 2 /\ finished[1] = 2 /\ finished[2] = 1

-----------------------------------------------------------------------------
(* Claims about the scoring call *)

\* the 0-based start of the chunk that holds the pair of 1-based index k
ChunkStartOf(k) == ((k - 1) \div batch_size) * batch_size

\* C1: for equal-length lists of N >= 1 pairs and batch_size >= 1 the call
\* returns N rows; the loop visits the indices 0..N-1 once each, in order, in
\* contiguous chunks of batch_size (the last one may be shorter); and row k is
\* the (P, R, F1) triple of the pair k as scored in its chunk.
C1_RowsInInputOrder ==
    (pc = "score_done" /\ Len(refs) = Len(hyps)) =>
        LET N  == Len(refs)
            d0 == GetIdfDict(corpus, pad_id)
        IN  /\ N >= 1
            /\ Len(ret) = N
            /\ Concat(visited) = [k \in 1..N |-> k]
            /\ \A c \in 1..Len(visited) :
                   Len(visited[c]) = IF c < Len(visited) THEN batch_size
                                     ELSE N - (c - 1) * batch_size
            /\ \A k \in 1..N :
                   LET s == ChunkStartOf(k)
                       c == ScoreChunk(Slice(refs, s, s + batch_size),
                                       Slice(hyps, s, s + batch_size), d0, pad_id)
                   IN  c.ok /\ ret[k] = c.rows[k - s]

\* three pairs in chunks of two: the last chunk is shorter, and the rows differ
C1_Witness ==
    /\ pc = "score_done"
    /\ Len(refs) = 3 /\ Len(hyps) = 3 /\ batch_size = 2
    /\ visited = <<<<1, 2>>, <<3>>>>
    /\ Len(ret) = 3 /\ ret[1] # ret[3] /\ ret[1] # ret[2]

\* C2: batch invariance: the rows of one call on N pairs are the rows of two
\* calls on the first ceil(N/2) pairs and on the rest, in order.
C2_BatchInvariance ==
    (pc = "score_done" /\ Len(refs) = Len(hyps) /\ Len(refs) >= 2) =>
        LET N  == Len(refs)
            h  == (N + 1) \div 2
            d0 == GetIdfDict(corpus, pad_id)
            a  == BertCosScoreIdf(SubSeq(refs, 1, h), SubSeq(hyps, 1, h), d0, pad_id, batch_size)
            b  == BertCosScoreIdf(SubSeq(refs, h + 1, N), SubSeq(hyps, h + 1, N), d0, pad_id, batch_size)
        IN  a.ok /\ b.ok /\ ret = a.rows \o b.rows

\* C3: a call on lists of different lengths never returns a score matrix.
C3_MismatchFails ==
    Len(refs) # Len(hyps) => pc # "score_done"

\* C7: every pair whose reference and hypothesis are the same text is scored
\* P = R = F1 = 1.
C7_SelfSimilarity ==
    (pc = "score_done" /\ Len(refs) = Len(hyps)) =>
        \A k \in 1..Len(refs) : refs[k] = hyps[k] => ret[k] = <<One, One, One>>

\* C9: the table is read-only after it is built: whatever the scoring call
\* has done, the table holds the entries get_idf_dict gave it.
C9_TableReadOnly ==
    idf_dict = GetIdfDict(corpus, pad_id)

-----------------------------------------------------------------------------
(* Claims about the scorer *)

\* C8: exchanging the reference side and the hypothesis side exchanges P and
\* R exactly, for every row, also for rows whose IDF weights sum to 0.
C8_SwapSymmetry ==
    pc = "greedy_done" =>
        \A b \in 1..Len(first.P) :
            first.R[b] = second.P[b] /\ first.P[b] = second.R[b]

\* C8 as amended: P(ref, hyp) = R(hyp, ref) for every row whose hypothesis
\* IDF weights do not sum to 0, and R(ref, hyp) = P(hyp, ref) for every row
\* whose reference IDF weights do not sum to 0.
C8_SwapSymmetryNonZero ==
    pc = "greedy_done" =>
        \A b \in 1..Len(first.P) :
            /\ FSum(first.hyp0.idf[b]) # Zero => first.P[b] = second.R[b]
            /\ FSum(first.ref0.idf[b]) # Zero => first.R[b] = second.P[b]

\* both sides weighted, the reference row padded, P and R different, and the
\* second call given the tensors the first one normalized
C8_Witness ==
    /\ pc = "greedy_done"
    /\ reuse /\ same_device
    /\ FSum(first.hyp0.idf[1]) # Zero /\ FSum(first.ref0.idf[1]) # Zero
    /\ first.ref0.mask[1] = <<1, 0>>
    /\ first.P[1] # first.R[1]
    /\ IsFin(first.P[1]) /\ IsFin(first.R[1])
    /\ second.P[1] = first.R[1] /\ second.R[1] = first.P[1]

-----------------------------------------------------------------------------
(* Claims about the embedding extractor *)

\* C10: for M >= 1 sentences and a sub-batch size b >= 1 or -1 (all rows),
\* the model is called on the contiguous row chunks [0,b), [b,2b), ... of the
\* one matrix padded to the whole set's max_len; the chunks cover every row
\* once, in order; the concatenated output is the output of one call on the
\* whole matrix, so row r is the embedding of sentence r; and lens, mask and
\* the IDF-weight matrix are those collate_idf produced.
C10_ChunkedEmbedding ==
    pc = "embed_done" =>
        \A c0 \in {CollateIdf(all_sens, GetIdfDict(corpus, pad_id), pad_id)} :
            LET M == Len(all_sens)
            IN  /\ M >= 1 /\ c0.ok
                /\ Concat(visited) = [k \in 1..M |-> k]
                /\ \A c \in 1..Len(visited) :
                       Len(visited[c]) = IF c < Len(visited) THEN batch_size
                                         ELSE M - (c - 1) * batch_size
                /\ Len(embeddings) = Len(visited)
                /\ ret.emb = BertEncode(c0.padded, c0.mask)
                /\ \A r \in 1..M : Len(ret.emb[r]) = MaxOfInts(c0.lens)
                /\ ret.lens = c0.lens
                /\ ret.mask = c0.mask
                /\ ret.idf = c0.padded_idf

\* three sentences of different lengths in sub-batches of two
C10_Witness ==
    /\ pc = "embed_done"
    /\ Len(all_sens) = 3 /\ batch_size = 2
    /\ all_sens[1] = <<"a">> /\ all_sens[2] = <<"a">> /\ all_sens[3] = <<"b", "c">>
    /\ visited = <<<<1, 2>>, <<3>>>>
    /\ Len(ret.emb) = 3 /\ Len(ret.emb[1]) = 4

=============================================================================
